---- MODULE Spec2Model ----
(***************************************************************************)
(* Model of borsdata/borsdata_api.py: the BorsdataAPI client.              *)
(*                                                                         *)
(* State: the client session (self._last_api_call, self._params), a wall   *)
(* clock, and per calling thread the position inside the endpoint          *)
(* operation / _call_api together with its local variables.                *)
(*                                                                         *)
(* Time is counted in ticks; 1/calls_per_second seconds is                 *)
(* TicksPerInterval ticks.  Python values of mixed type (None, strings,    *)
(* id lists) are wrapped as None / Some(v).  A DataFrame is a record       *)
(* [columns, index, rows]: the set of column labels, the sequence of index *)
(* level names (<<>> is the default RangeIndex) and the sequence of rows,  *)
(* each a function from the labels of its columns and index levels to the  *)
(* cell values.                                                            *)
(***************************************************************************)
EXTENDS Integers, Sequences, FiniteSets, TLC

VARIABLES
    clock,            \* time.time(), in ticks
    _last_api_call,   \* self._last_api_call
    _params,          \* self._params
    starts,           \* history: clock value at the start of every GET, in order
    prev_status,      \* history: status code of the latest response (0: none yet)
    pc,               \* per thread: position in the operation / _call_api
    call,             \* per thread: the operation invoked and its arguments
    current_time,     \* per thread: local current_time of _call_api
    time_delta,       \* per thread: local time_delta of _call_api
    wake,             \* per thread: earliest clock at which time.sleep returns
    stamp,            \* per thread: value of time.time() evaluated on line 39
    sent,             \* per thread: query parameters of the requests of this call
    diag,             \* per thread: keys printed as "Unknown param" in this call
    response,         \* per thread: the requests.Response of this call
    result            \* per thread: what the operation returned or raised

vars == <<clock, _last_api_call, _params, starts, prev_status, pc, call, current_time,
          time_delta, wake, stamp, sent, diag, response, result>>

----------------------------------------------------------------------------
(* Bounds of the model *)

\* number of clock ticks in 1/calls_per_second seconds
TicksPerInterval == 2
\* the clock stops advancing here
MaxTime == 6
\* at most this many keyword overrides in a direct _call_api / _get_params use
MaxOverrides == 2
\* at most this many GET requests are started in one behaviour
MaxRequests == 3

(* Program constants *)

calls_per_second == 10
MaxBatch == 50
DefaultMaxYearCount == 20
DefaultMaxR12QCount == 40
DefaultMaxCount == 20
HTTP_OK == 200
Underscore == 95

TicksPerSecond == calls_per_second * TicksPerInterval
\* 1 / self._api_calls_per_second, in ticks
Interval == TicksPerSecond \div calls_per_second

Threads == {1, 2}

----------------------------------------------------------------------------
(* Python values *)

None == [none |-> TRUE]
Some(v) == [none |-> FALSE, val |-> v]

Range(s) == {s[i] : i \in DOMAIN s}

NoKw == [k \in {} |-> None]

\* str(stock_id) for stock_id in value, joined by ","
RECURSIVE Join(_)
Join(s) ==
    IF s = <<>> THEN ""
    ELSE IF Len(s) = 1 THEN ToString(s[1])
    ELSE ToString(s[1]) \o "," \o Join(Tail(s))

\* the dict d with d[k] = v assigned
DictSet(d, k, v) == [x \in (DOMAIN d) \cup {k} |-> IF x = k THEN v ELSE d[x]]

\* self._params as built by __init__
InitParams ==
    [authKey |-> "key",
     maxYearCount |-> DefaultMaxYearCount,
     maxR12QCount |-> DefaultMaxR12QCount,
     maxCount |-> DefaultMaxCount]

\* the keys of kwargs in iteration order: the model fixes one order, the
\* branches of _get_params write disjoint keys so the order does not matter
RECURSIVE SetToSeq(_)
SetToSeq(S) ==
    IF S = {} THEN <<>>
    ELSE LET x == CHOOSE y \in S : TRUE IN <<x>> \o SetToSeq(S \ {x})

\* variants of the loop body with a slip, used to test the properties below
GetParamsStepToDate(acc, key, value) ==
    IF value.none THEN acc
    ELSE IF key = "from_date"
        THEN [acc EXCEPT !.params = DictSet(@, "from", value.val)]
    ELSE IF key = "to_date" \/ key = "date"
        THEN [acc EXCEPT !.params = DictSet(@, key, value.val)]
    ELSE IF key = "instList"
        THEN [acc EXCEPT !.params = DictSet(@, key, Join(value.val))]
    ELSE [acc EXCEPT !.unknown = @ \cup {key}]

GetParamsStepUnknownKept(acc, key, value) ==
    IF value.none THEN acc
    ELSE IF key = "from_date"
        THEN [acc EXCEPT !.params = DictSet(@, "from", value.val)]
    ELSE IF key = "to" \/ key = "date"
        THEN [acc EXCEPT !.params = DictSet(@, key, value.val)]
    ELSE IF key = "instList"
        THEN [acc EXCEPT !.params = DictSet(@, key, Join(value.val))]
    ELSE [acc EXCEPT !.params = DictSet(@, key, value.val),
                     !.unknown = @ \cup {key}]

GetParamsStepFromDateVerbatim(acc, key, value) ==
    IF value.none THEN acc
    ELSE IF key = "from_date" \/ key = "to" \/ key = "date"
        THEN [acc EXCEPT !.params = DictSet(@, key, value.val)]
    ELSE IF key = "instList"
        THEN [acc EXCEPT !.params = DictSet(@, key, Join(value.val))]
    ELSE [acc EXCEPT !.unknown = @ \cup {key}]

\* one iteration of the loop of _get_params: acc = [params, unknown]
GetParamsStep(acc, key, value) ==
    IF value.none THEN acc
    ELSE IF key = "from_date"
        THEN [acc EXCEPT !.params = DictSet(@, "from", value.val)]
    ELSE IF key = "to" \/ key = "date"
        THEN [acc EXCEPT !.params = DictSet(@, key, value.val)]
    ELSE IF key = "instList"
        THEN [acc EXCEPT !.params = DictSet(@, key, Join(value.val))]
    ELSE [acc EXCEPT !.unknown = @ \cup {key}]

RECURSIVE GetParamsLoop(_, _, _)
GetParamsLoop(acc, keys, kwargs) ==
    IF keys = <<>> THEN acc
    ELSE GetParamsLoop(GetParamsStep(acc, Head(keys), kwargs[Head(keys)]),
                       Tail(keys), kwargs)

\* _get_params(**kwargs) on the session parameters base: the dict returned
\* and the keys reported by print as unknown
GetParams(base, kwargs) ==
    GetParamsLoop([params |-> base, unknown |-> {}],
                  SetToSeq(DOMAIN kwargs), kwargs)

----------------------------------------------------------------------------
(* pandas DataFrames *)

\* pd.json_normalize(records) of a list of flat records with the same keys
Normalize(records) ==
    [columns |-> UNION {DOMAIN records[i] : i \in DOMAIN records},
     index |-> <<>>,
     rows |-> records]

RECURSIVE Flatten(_, _, _)
Flatten(parents, record_path, meta) ==
    IF parents = <<>> THEN <<>>
    ELSE LET par == Head(parents)
             kids == par[record_path]
         IN [i \in DOMAIN kids |-> (meta :> par[meta]) @@ kids[i]]
            \o Flatten(Tail(parents), record_path, meta)

\* pd.json_normalize(parents, record_path=..., meta=...): one row per child
\* record, tagged with the parent's meta field
NormalizeNested(parents, record_path, meta) ==
    LET rows == Flatten(parents, record_path, meta)
    IN [columns |-> {meta} \cup UNION {DOMAIN rows[i] : i \in DOMAIN rows},
        index |-> <<>>,
        rows |-> rows]

\* the new label of column c under the mapping m of df.rename(columns=m)
Renamed(m, c) == IF c \in DOMAIN m THEN m[c] ELSE c

RenameRow(m, r) ==
    [n \in {Renamed(m, c) : c \in DOMAIN r} |->
        r[CHOOSE c \in DOMAIN r : Renamed(m, c) = n]]

\* df.rename(columns=m)
Rename(df, m) ==
    [columns |-> {Renamed(m, c) : c \in df.columns},
     index |-> df.index,
     rows |-> [i \in DOMAIN df.rows |-> RenameRow(m, df.rows[i])]]

\* pd.to_datetime of an ISO date string, given as <<year, month, day>>: the
\* Timestamp is modelled by an order preserving day number
ToDatetime(d) == (d[1] * 12 + (d[2] - 1)) * 31 + (d[3] - 1)

\* _parse_date(df, key)
ParseDate(df, key) ==
    IF key \in df.columns
    THEN [df EXCEPT !.rows =
             [i \in DOMAIN df.rows |-> [df.rows[i] EXCEPT ![key] = ToDatetime(@)]]]
    ELSE df

\* x.replace("_", "") on a string given as its sequence of character codes
StripUnderscores(x) == SelectSeq(x, LAMBDA ch : ch # Underscore)

\* labels that hold text (sequences of character codes), compared as strings
TextCols ==
    {"reportProperty", "reportPropery", "translationKey", "languageCode", "lang"}

RECURSIVE LexLess(_, _)
LexLess(x, y) ==
    IF y = <<>> THEN FALSE
    ELSE IF x = <<>> THEN TRUE
    ELSE IF Head(x) # Head(y) THEN Head(x) < Head(y)
    ELSE LexLess(Tail(x), Tail(y))

CellLess(c, x, y) == IF c \in TextCols THEN LexLess(x, y) ELSE x < y

\* lexicographic order of the index keys of rows a and b
RECURSIVE KeyLess(_, _, _)
KeyLess(index, a, b) ==
    IF index = <<>> THEN FALSE
    ELSE LET c == Head(index)
         IN IF a[c] # b[c] THEN CellLess(c, a[c], b[c])
            ELSE KeyLess(Tail(index), a, b)

Before(index, ascending, a, b) ==
    IF ascending THEN KeyLess(index, a, b) ELSE KeyLess(index, b, a)

RECURSIVE InsertRow(_, _, _, _)
InsertRow(r, s, index, ascending) ==
    IF s = <<>> THEN <<r>>
    ELSE IF Before(index, ascending, r, Head(s)) THEN <<r>> \o s
    ELSE <<Head(s)>> \o InsertRow(r, Tail(s), index, ascending)

\* df.sort_index(ascending=ascending): rows with equal keys keep their order
RECURSIVE SortRows(_, _, _)
SortRows(rows, index, ascending) ==
    IF rows = <<>> THEN <<>>
    ELSE InsertRow(rows[Len(rows)],
                   SortRows(SubSeq(rows, 1, Len(rows) - 1), index, ascending),
                   index, ascending)

\* _set_index(df, index, ascending); a single column name is given as a
\* one element sequence
SetIndex(df, index, ascending) ==
    IF \E i \in DOMAIN index : index[i] \notin df.columns
    THEN df
    ELSE [columns |-> df.columns \ Range(index),
          index |-> index,
          rows |-> SortRows(df.rows, index, ascending)]

\* the distinct index keys of rows, in order of first appearance, each as
\* the row restricted to the index levels
RECURSIVE DistinctKeys(_, _)
DistinctKeys(rows, index) ==
    IF rows = <<>> THEN <<>>
    ELSE LET init == DistinctKeys(SubSeq(rows, 1, Len(rows) - 1), index)
             k == [c \in Range(index) |-> rows[Len(rows)][c]]
         IN IF k \in Range(init) THEN init ELSE Append(init, k)

RECURSIVE SumSeq(_)
SumSeq(s) == IF s = <<>> THEN 0 ELSE Head(s) + SumSeq(Tail(s))

\* the cell of df.pivot_table for index key k and column value col: the
\* mean of the matching values (NaN, here None, when there is none); the
\* payloads of the model have at most one matching value, so the integer
\* quotient is exact
PivotCell(df, k, columns, col, values) ==
    LET hit == SelectSeq(df.rows,
                   LAMBDA r : r[columns] = col /\ \A c \in DOMAIN k : r[c] = k[c])
    IN IF hit = <<>> THEN None
       ELSE Some(SumSeq([i \in DOMAIN hit |-> hit[i][values]]) \div Len(hit))

\* df.pivot_table(index=index, columns=columns, values=values), all labels
\* present: one row per distinct index key in ascending order, one column
\* per distinct value of columns (its label is the value as a string)
PivotTable(df, index, columns, values) ==
    LET cols == {df.rows[i][columns] : i \in DOMAIN df.rows}
        keys == SortRows(DistinctKeys(df.rows, index), index, TRUE)
    IN [columns |-> {ToString(col) : col \in cols},
        index |-> index,
        rows |-> [i \in DOMAIN keys |->
                    keys[i] @@ [l \in {ToString(col) : col \in cols} |->
                        PivotCell(df, keys[i], columns,
                                  CHOOSE col \in cols : ToString(col) = l, values)]]]

\* [x.replace("_", "") for x in df.columns] on the labels of the payloads
StripLabel(x) ==
    IF x = "report_End_Date" THEN "reportEndDate" ELSE x

\* str.lower on the labels of the payloads
LowerLabel(x) ==
    IF x = "report_End_Date" THEN "report_end_date" ELSE x

\* df.columns = [x.replace("_", "") for x in df.columns]
StripLabels(df) == Rename(df, [c \in df.columns |-> StripLabel(c)])

\* df.rename(columns=str.lower)
LowerLabels(df) == Rename(df, [c \in df.columns |-> LowerLabel(c)])

----------------------------------------------------------------------------
(* What an operation hands back *)

Pending == [kind |-> "pending"]
ReturnedNone == [kind |-> "none"]
Table(df) == [kind |-> "table", df |-> df]
Tables(dfs) == [kind |-> "tables", dfs |-> dfs]
Scalar(v) == [kind |-> "scalar", value |-> v]
Raised(e) == [kind |-> "raise", exc |-> e]

\* what _call_api returns: the Response itself when status_code != 200,
\* else response.json()
CallApiReturn(resp) ==
    IF resp.status_code # HTTP_OK
    THEN [isResponse |-> TRUE, status_code |-> resp.status_code, body |-> resp.body]
    ELSE [isResponse |-> FALSE, json |-> resp.body]

----------------------------------------------------------------------------
(* Payloads of the remote service drawn by the model *)

\* values of the first and second index level and of a data field in the
\* three records of a payload: unsorted in both directions, with a tie on
\* the first level
RoleVal(role, k) ==
    IF role = 1 THEN <<2, 1, 2>>[k]
    ELSE IF role = 2 THEN <<2, 1, 1>>[k]
    ELSE 10 * k

\* a JSON field of the given kind: a number, an ISO date string (as
\* <<year, month, day>>) or a text (as character codes, with an underscore)
Cell(kind, n) ==
    IF kind = "int" THEN n
    ELSE IF kind = "date" THEN <<2020, 9, n>>
    ELSE <<96 + n, Underscore, 96 + n>>

\* record k of a payload whose fields are schema: <<name, kind, role>>
Rec(schema, k) ==
    [name \in {schema[i][1] : i \in DOMAIN schema} |->
        LET f == schema[CHOOSE i \in DOMAIN schema : schema[i][1] = name]
        IN Cell(f[2], RoleVal(f[3], k))]

Recs(schema, n) == [k \in 1..n |-> Rec(schema, k)]

\* schema without the field called name
Without(schema, name) == SelectSeq(schema, LAMBDA f : f[1] # name)

\* the record lists drawn for a schema: all fields, one index field
\* missing, or no record at all
RecLists(schema, n) ==
    {Recs(schema, n), <<>>}
    \cup {Recs(Without(schema, schema[i][1]), n) :
            i \in {j \in DOMAIN schema : schema[j][3] \in {1, 2}}}

IdNameSchema == <<<<"id", "int", 1>>, <<"name", "int", 3>>>>
TranslationSchema == <<<<"translationKey", "text", 1>>, <<"nameSv", "int", 3>>>>
InstrumentSchema == <<<<"insId", "int", 1>>, <<"listingDate", "date", 3>>>>
UpdatedSchema == <<<<"insId", "int", 1>>, <<"updatedAt", "date", 3>>>>
DescriptionSchema ==
    <<<<"insId", "int", 1>>, <<"languageCode", "text", 2>>, <<"text", "int", 3>>>>
KpiValueSchema == <<<<"y", "int", 1>>, <<"p", "int", 2>>, <<"v", "int", 3>>>>
KpiDataSchema == <<<<"i", "int", 1>>, <<"n", "int", 3>>>>
KpiMetaSchema == <<<<"kpiId", "int", 1>>, <<"nameEn", "int", 3>>>>
ReportSchema ==
    <<<<"year", "int", 1>>, <<"period", "int", 2>>, <<"report_End_Date", "date", 3>>>>
ReportMetaSchema == <<<<"reportPropery", "text", 1>>, <<"nameEn", "int", 3>>>>
CalendarSchema == <<<<"releaseDate", "date", 3>>>>
PriceSchema == <<<<"d", "date", 1>>, <<"c", "int", 3>>>>
PriceLastSchema == <<<<"d", "date", 1>>, <<"i", "int", 2>>, <<"c", "int", 3>>>>
PriceDateSchema == <<<<"i", "int", 1>>, <<"d", "date", 3>>>>
SplitSchema == <<<<"instrumentId", "int", 1>>, <<"splitDate", "date", 3>>>>

\* the "kpis" list of a KPI summary: per KPI its values
KpiLists ==
    {<<>>} \cup
    {<<[KpiId |-> 10, values |-> v], [KpiId |-> 11, values |-> SubSeq(v, 1, Len(v) - 1)]>> :
        v \in RecLists(KpiValueSchema, 3) \ {<<>>}}

\* JSON bodies of a 200 response to the operation op: the envelope key(s)
\* of the endpoint are present
Bodies(op) ==
    CASE op \in {"get_branches"} -> {[branches |-> r] : r \in RecLists(IdNameSchema, 3)}
      [] op = "get_countries" -> {[countries |-> r] : r \in RecLists(IdNameSchema, 3)}
      [] op = "get_markets" -> {[markets |-> r] : r \in RecLists(IdNameSchema, 3)}
      [] op = "get_sectors" -> {[sectors |-> r] : r \in RecLists(IdNameSchema, 3)}
      [] op = "get_translation_metadata" ->
            {[translationMetadatas |-> r] : r \in RecLists(TranslationSchema, 3)}
      [] op = "get_instruments" ->
            {[instruments |-> r] : r \in RecLists(InstrumentSchema, 3)}
      [] op = "get_instruments_updated" ->
            {[instruments |-> r] : r \in RecLists(UpdatedSchema, 3)}
      [] op = "get_instrument_descriptions" ->
            {[list |-> r] : r \in RecLists(DescriptionSchema, 3)}
      [] op = "get_kpi_history" -> {[values |-> r] : r \in RecLists(KpiValueSchema, 3)}
      [] op = "get_kpi_summary" -> {[kpis |-> k] : k \in KpiLists}
      [] op = "get_kpi_data_instrument" ->
            {[value |-> r[1]] : r \in RecLists(KpiDataSchema, 1) \ {<<>>}}
      [] op = "get_kpi_data_all_instruments" ->
            {[values |-> r] : r \in RecLists(KpiDataSchema, 3)}
      [] op = "get_updated_kpis" -> {[kpisCalcUpdated |-> Cell("date", 1)]}
      [] op = "get_kpi_metadata" ->
            {[kpiHistoryMetadatas |-> r] : r \in RecLists(KpiMetaSchema, 3)}
      [] op = "get_instrument_report" -> {[reports |-> r] : r \in RecLists(ReportSchema, 3)}
      [] op = "get_instrument_reports" ->
            {[reportsQuarter |-> r, reportsYear |-> SubSeq(r, 1, Len(r) - 1),
              reportsR12 |-> <<>>] : r \in RecLists(ReportSchema, 3)}
      [] op = "get_instrument_report_list" ->
            {[reportList |-> l] : l \in
                {<<>>, <<[instrument |-> 3, reportsR12 |-> Recs(ReportSchema, 1),
                          reportsQuarter |-> Recs(ReportSchema, 3),
                          reportsYear |-> Recs(ReportSchema, 2)]>>}}
      [] op = "get_reports_metadata" ->
            {[reportMetadatas |-> r] : r \in RecLists(ReportMetaSchema, 3)}
      [] op = "get_report_calendar" ->
            {[list |-> l] : l \in
                {<<>>, <<[insId |-> 3, values |-> Recs(CalendarSchema, 2)]>>}}
      [] op = "get_instrument_stock_prices" ->
            {[stockPricesList |-> r] : r \in RecLists(PriceSchema, 3)}
      [] op = "get_instrument_stock_prices_list" ->
            {[stockPricesArrayList |-> l] : l \in
                {<<>>, <<[instrument |-> 2, stockPricesList |-> Recs(PriceSchema, 2)],
                         [instrument |-> 3, stockPricesList |-> Recs(PriceSchema, 1)]>>}}
      [] op = "get_instruments_stock_prices_last" ->
            {[stockPricesList |-> r] : r \in RecLists(PriceLastSchema, 3)}
      [] op = "get_stock_prices_date" ->
            {[stockPricesList |-> r] : r \in RecLists(PriceDateSchema, 3)}
      [] op = "get_stock_splits" ->
            {[stockSplitList |-> r] : r \in RecLists(SplitSchema, 3)}
      [] OTHER -> {[data |-> <<>>]}

\* status codes the transport answers with
StatusCodes == {HTTP_OK, 404, 429}

----------------------------------------------------------------------------
(* The endpoint operations after _call_api has returned json_data *)

PriceNames ==
    [d |-> "date", c |-> "close", h |-> "high", l |-> "low", o |-> "open",
     v |-> "volume"]

KpiNames == [y |-> "year", p |-> "period", v |-> "kpiValue"]

ScreenerNames == [i |-> "insId", n |-> "valueNum", s |-> "valueStr"]

get_branches_df(json_data) ==
    Table(SetIndex(Normalize(json_data["branches"]), <<"id">>, TRUE))

get_countries_df(json_data) ==
    Table(SetIndex(Normalize(json_data["countries"]), <<"id">>, TRUE))

get_markets_df(json_data) ==
    Table(SetIndex(Normalize(json_data["markets"]), <<"id">>, TRUE))

get_sectors_df(json_data) ==
    Table(SetIndex(Normalize(json_data["sectors"]), <<"id">>, TRUE))

get_translation_metadata_df(json_data) ==
    Table(SetIndex(Normalize(json_data["translationMetadatas"]),
                   <<"translationKey">>, TRUE))

get_instruments_df(json_data) ==
    Table(SetIndex(ParseDate(Normalize(json_data["instruments"]), "listingDate"),
                   <<"insId">>, TRUE))

get_instruments_updated_df(json_data) ==
    Table(SetIndex(ParseDate(Normalize(json_data["instruments"]), "updatedAt"),
                   <<"insId">>, TRUE))

get_instrument_descriptions_df(json_data) ==
    Table(SetIndex(Rename(Normalize(json_data["list"]), [languageCode |-> "lang"]),
                   <<"insId", "lang">>, TRUE))

get_kpi_history_df(json_data) ==
    Table(SetIndex(Rename(Normalize(json_data["values"]), KpiNames),
                   <<"year", "period">>, FALSE))

get_kpi_summary_df(json_data) ==
    LET df == Rename(NormalizeNested(json_data["kpis"], "values", "KpiId"),
                     KpiNames @@ [KpiId |-> "kpiId"])
    IN IF {"year", "period", "kpiId", "kpiValue"} \subseteq df.columns
       THEN Table(SetIndex(PivotTable(df, <<"year", "period">>, "kpiId", "kpiValue"),
                           <<"year", "period">>, FALSE))
       ELSE Raised("KeyError")

get_kpi_data_instrument_df(json_data) ==
    Table(SetIndex(Rename(Normalize(<<json_data["value"]>>), ScreenerNames),
                   <<"insId">>, TRUE))

get_kpi_data_all_instruments_df(json_data) ==
    Table(SetIndex(Rename(Normalize(json_data["values"]), ScreenerNames),
                   <<"insId">>, TRUE))

get_updated_kpis_value(json_data) ==
    Scalar(ToDatetime(json_data["kpisCalcUpdated"]))

get_kpi_metadata_df(json_data) ==
    Table(SetIndex(Normalize(json_data["kpiHistoryMetadatas"]), <<"kpiId">>, TRUE))

\* lines 342-347 and 361-366: one list of reports made a table
ReportTable(reports) ==
    SetIndex(
        ParseDate(ParseDate(ParseDate(StripLabels(Normalize(reports)),
            "reportStartDate"), "reportEndDate"), "reportDate"),
        <<"year", "period">>, FALSE)

get_instrument_report_df(json_data) == Table(ReportTable(json_data["reports"]))

get_instrument_reports_dfs(json_data) ==
    Tables(<<ReportTable(json_data["reportsQuarter"]),
             ReportTable(json_data["reportsYear"]),
             ReportTable(json_data["reportsR12"])>>)

\* lines 381-388, 390-397, 399-406: one record path of the report list
ReportListTable(reportList, record_path) ==
    ParseDate(ParseDate(ParseDate(
        Rename(LowerLabels(NormalizeNested(reportList, record_path, "instrument")),
               [instrument |-> "stock_id"]),
        "report_start_date"), "report_end_date"), "report_date")

get_instrument_report_list_dfs(json_data) ==
    Tables(<<ReportListTable(json_data["reportList"], "reportsQuarter"),
             ReportListTable(json_data["reportList"], "reportsYear"),
             ReportListTable(json_data["reportList"], "reportsR12")>>)

get_reports_metadata_df(json_data) ==
    LET df == Rename(Normalize(json_data["reportMetadatas"]),
                     [reportPropery |-> "reportProperty"])
    IN IF "reportProperty" \in df.columns
       THEN Table(SetIndex(
                [df EXCEPT !.rows = [i \in DOMAIN df.rows |->
                    [df.rows[i] EXCEPT !["reportProperty"] = StripUnderscores(@)]]],
                <<"reportProperty">>, TRUE))
       ELSE Raised("KeyError")

get_report_calendar_df(json_data) ==
    Table(NormalizeNested(json_data["list"], "values", "insId"))

get_instrument_stock_prices_df(json_data) ==
    Table(SetIndex(ParseDate(Rename(Normalize(json_data["stockPricesList"]),
                                    PriceNames), "date"),
                   <<"date">>, FALSE))

\* fillna(0) changes nothing: the records of the model have every field
get_instrument_stock_prices_list_df(json_data) ==
    Table(Rename(NormalizeNested(json_data["stockPricesArrayList"],
                                 "stockPricesList", "instrument"),
                 PriceNames @@ [instrument |-> "stock_id"]))

get_instruments_stock_prices_last_df(json_data) ==
    Table(SetIndex(ParseDate(Rename(Normalize(json_data["stockPricesList"]),
                                    PriceNames @@ [i |-> "insId"]), "date"),
                   <<"date">>, FALSE))

get_stock_prices_date_df(json_data) ==
    Table(SetIndex(ParseDate(Rename(Normalize(json_data["stockPricesList"]),
                                    PriceNames @@ [i |-> "insId"]), "date"),
                   <<"insId">>, TRUE))

get_stock_splits_df(json_data) ==
    Table(SetIndex(ParseDate(Rename(Normalize(json_data["stockSplitList"]),
                                    [instrumentId |-> "insId"]), "splitDate"),
                   <<"insId">>, TRUE))

\* the part of the operation op after its call of _call_api returned ret:
\* subscripting a Response raises TypeError
Reshape(op, ret) ==
    IF op = "_call_api" THEN [kind |-> "api", ret |-> ret]
    ELSE IF ret.isResponse THEN Raised("TypeError")
    ELSE CASE op = "get_branches" -> get_branches_df(ret.json)
      [] op = "get_countries" -> get_countries_df(ret.json)
      [] op = "get_markets" -> get_markets_df(ret.json)
      [] op = "get_sectors" -> get_sectors_df(ret.json)
      [] op = "get_translation_metadata" -> get_translation_metadata_df(ret.json)
      [] op = "get_instruments" -> get_instruments_df(ret.json)
      [] op = "get_instruments_updated" -> get_instruments_updated_df(ret.json)
      [] op = "get_instrument_descriptions" -> get_instrument_descriptions_df(ret.json)
      [] op = "get_kpi_history" -> get_kpi_history_df(ret.json)
      [] op = "get_kpi_summary" -> get_kpi_summary_df(ret.json)
      [] op = "get_kpi_data_instrument" -> get_kpi_data_instrument_df(ret.json)
      [] op = "get_kpi_data_all_instruments" -> get_kpi_data_all_instruments_df(ret.json)
      [] op = "get_updated_kpis" -> get_updated_kpis_value(ret.json)
      [] op = "get_kpi_metadata" -> get_kpi_metadata_df(ret.json)
      [] op = "get_instrument_report" -> get_instrument_report_df(ret.json)
      [] op = "get_instrument_reports" -> get_instrument_reports_dfs(ret.json)
      [] op = "get_instrument_report_list" -> get_instrument_report_list_dfs(ret.json)
      [] op = "get_reports_metadata" -> get_reports_metadata_df(ret.json)
      [] op = "get_report_calendar" -> get_report_calendar_df(ret.json)
      [] op = "get_instrument_stock_prices" -> get_instrument_stock_prices_df(ret.json)
      [] op = "get_instrument_stock_prices_list" ->
            get_instrument_stock_prices_list_df(ret.json)
      [] op = "get_instruments_stock_prices_last" ->
            get_instruments_stock_prices_last_df(ret.json)
      [] op = "get_stock_prices_date" -> get_stock_prices_date_df(ret.json)
      [] op = "get_stock_splits" -> get_stock_splits_df(ret.json)

----------------------------------------------------------------------------
(* Arguments drawn by the model *)

MaxCountArgs == {None, Some(5)}
FromDates == {None, Some("2022-01-01")}
ToDates == {None, Some("2023-01-01")}
DateArgs == {Some("2020-09-25")}
BatchSizes == {4, MaxBatch, MaxBatch + 1}
InsIds(n) == [i \in 1..n |-> i + 1]

\* keyword names tried on _call_api directly
KwKeys ==
    {"from_date", "from", "to", "to_date", "date", "instList", "foo", "maxCount"}

KwValue(k) ==
    IF k = "instList" THEN Some(InsIds(4))
    ELSE IF k = "maxCount" THEN Some(5)
    ELSE Some("2022-01-01")

NoCall == [op |-> "", kwargs |-> NoKw, max_count |-> None, ins_ids |-> <<>>]

----------------------------------------------------------------------------
(* State machine *)

StartTime == Interval

Init ==
    /\ clock = StartTime
    /\ _last_api_call = 0
    /\ _params = InitParams
    /\ starts = <<>>
    /\ prev_status = 0
    /\ pc = [p \in Threads |-> "idle"]
    /\ call = [p \in Threads |-> NoCall]
    /\ current_time = [p \in Threads |-> 0]
    /\ time_delta = [p \in Threads |-> 0]
    /\ wake = [p \in Threads |-> 0]
    /\ stamp = [p \in Threads |-> 0]
    /\ sent = [p \in Threads |-> <<>>]
    /\ diag = [p \in Threads |-> {}]
    /\ response = [p \in Threads |-> [status_code |-> 0, body |-> <<>>]]
    /\ result = [p \in Threads |-> Pending]

Locals == <<current_time, time_delta, wake, stamp, sent, diag, response>>

\* thread p enters operation op and reaches its call of _call_api(url, **kwargs)
Invoke(p, op, kwargs, max_count, ins_ids) ==
    /\ pc[p] = "idle"
    /\ call' = [call EXCEPT ![p] = [op |-> op, kwargs |-> kwargs,
                                    max_count |-> max_count, ins_ids |-> ins_ids]]
    /\ pc' = [pc EXCEPT ![p] = "l33"]
    /\ UNCHANGED <<clock, _last_api_call, starts, prev_status, result, Locals>>

\* an operation without arguments that matter to the request
Plain(p, op) == Invoke(p, op, NoKw, None, <<>>) /\ UNCHANGED _params

get_branches(p) == Plain(p, "get_branches")
get_countries(p) == Plain(p, "get_countries")
get_markets(p) == Plain(p, "get_markets")
get_sectors(p) == Plain(p, "get_sectors")
get_translation_metadata(p) == Plain(p, "get_translation_metadata")
get_instruments(p) == Plain(p, "get_instruments")
get_instruments_updated(p) == Plain(p, "get_instruments_updated")

\* lines 203-207
get_instrument_descriptions(p) ==
    /\ pc[p] = "idle"
    /\ \E n \in BatchSizes :
        IF n > MaxBatch
        THEN /\ call' = [call EXCEPT ![p] =
                    [NoCall EXCEPT !.op = "get_instrument_descriptions",
                                   !.ins_ids = InsIds(n)]]
             /\ result' = [result EXCEPT ![p] = ReturnedNone]
             /\ pc' = [pc EXCEPT ![p] = "done"]
             /\ UNCHANGED <<clock, _last_api_call, _params, starts, prev_status, Locals>>
        ELSE /\ Invoke(p, "get_instrument_descriptions",
                       [instList |-> Some(InsIds(n))], None, InsIds(n))
             /\ UNCHANGED _params

\* lines 229-235: params is a local copy that is never passed on
get_kpi_history(p) ==
    \E max_count \in MaxCountArgs :
        /\ Invoke(p, "get_kpi_history", NoKw, max_count, <<>>)
        /\ UNCHANGED _params

\* lines 251-252 and 338-339: self._params["maxCount"] = max_count
SetSessionMaxCount(max_count) ==
    _params' = IF max_count.none THEN _params
               ELSE [_params EXCEPT !["maxCount"] = max_count.val]

get_kpi_summary(p) ==
    \E max_count \in MaxCountArgs :
        /\ Invoke(p, "get_kpi_summary", NoKw, max_count, <<>>)
        /\ SetSessionMaxCount(max_count)

get_kpi_data_instrument(p) == Plain(p, "get_kpi_data_instrument")
get_kpi_data_all_instruments(p) == Plain(p, "get_kpi_data_all_instruments")
get_updated_kpis(p) == Plain(p, "get_updated_kpis")
get_kpi_metadata(p) == Plain(p, "get_kpi_metadata")

get_instrument_report(p) ==
    \E max_count \in MaxCountArgs :
        /\ Invoke(p, "get_instrument_report", NoKw, max_count, <<>>)
        /\ SetSessionMaxCount(max_count)

get_instrument_reports(p) == Plain(p, "get_instrument_reports")

get_instrument_report_list(p) ==
    \E n \in BatchSizes :
        /\ pc[p] = "idle"
        /\ Invoke(p, "get_instrument_report_list",
                  [instList |-> Some(InsIds(n))], None, InsIds(n))
        /\ UNCHANGED _params

get_reports_metadata(p) == Plain(p, "get_reports_metadata")

\* lines 434-435: no check of len(ins_ids)
get_report_calendar(p) ==
    \E n \in BatchSizes :
        /\ pc[p] = "idle"
        /\ Invoke(p, "get_report_calendar",
                  [instList |-> Some(InsIds(n))], None, InsIds(n))
        /\ UNCHANGED _params

\* line 455: max_count is not used
get_instrument_stock_prices(p) ==
    \E from_date \in FromDates, to_date \in ToDates, max_count \in MaxCountArgs :
        /\ Invoke(p, "get_instrument_stock_prices",
                  [from_date |-> from_date, to |-> to_date], max_count, <<>>)
        /\ UNCHANGED _params

get_instrument_stock_prices_list(p) ==
    \E from_date \in FromDates, to_date \in ToDates :
        /\ Invoke(p, "get_instrument_stock_prices_list",
                  [from_date |-> from_date, to |-> to_date,
                   instList |-> Some(InsIds(4))], None, InsIds(4))
        /\ UNCHANGED _params

get_instruments_stock_prices_last(p) == Plain(p, "get_instruments_stock_prices_last")

get_stock_prices_date(p) ==
    \E date \in DateArgs :
        /\ Invoke(p, "get_stock_prices_date", [date |-> date], None, <<>>)
        /\ UNCHANGED _params

get_stock_splits(p) == Plain(p, "get_stock_splits")

\* _call_api(url, **kwargs) used directly, with any keywords
call_api(p) ==
    /\ pc[p] = "idle"
    /\ \E S \in SUBSET KwKeys :
        /\ Cardinality(S) <= MaxOverrides
        /\ \E nones \in SUBSET S :
            Invoke(p, "_call_api",
                   [k \in S |-> IF k \in nones THEN None ELSE KwValue(k)], None, <<>>)
    /\ UNCHANGED _params

(* _call_api, line by line *)

\* line 33
ReadClock(p) ==
    /\ pc[p] = "l33"
    /\ current_time' = [current_time EXCEPT ![p] = clock]
    /\ pc' = [pc EXCEPT ![p] = "l34"]
    /\ UNCHANGED <<clock, _last_api_call, _params, starts, prev_status, call, time_delta, wake,
                   stamp, sent, diag, response, result>>

\* lines 34-35; current_time is not read again, and time_delta only by
\* line 36, so the model forgets them where they are dead
ReadLast(p) ==
    /\ pc[p] = "l34"
    /\ LET delta == current_time[p] - _last_api_call
       IN IF delta < Interval
          THEN /\ time_delta' = [time_delta EXCEPT ![p] = delta]
               /\ pc' = [pc EXCEPT ![p] = "l36"]
          ELSE /\ time_delta' = [time_delta EXCEPT ![p] = 0]
               /\ pc' = [pc EXCEPT ![p] = "l37"]
    /\ current_time' = [current_time EXCEPT ![p] = 0]
    /\ UNCHANGED <<clock, _last_api_call, _params, starts, prev_status, call, wake,
                   stamp, sent, diag, response, result>>

\* how long line 36 asks time.sleep to wait
SleepTimeDelta(delta) == delta

SleepTime(delta) == Interval - delta

\* line 36: time.sleep is entered
SleepCall(p) ==
    /\ pc[p] = "l36"
    /\ wake' = [wake EXCEPT ![p] = clock + SleepTime(time_delta[p])]
    /\ time_delta' = [time_delta EXCEPT ![p] = 0]
    /\ pc' = [pc EXCEPT ![p] = "sleeping"]
    /\ UNCHANGED <<clock, _last_api_call, _params, starts, prev_status, call, current_time,
                   stamp, sent, diag, response, result>>

\* line 36: time.sleep returns, not before the time asked for has passed
SleepReturn(p) ==
    /\ pc[p] = "sleeping"
    /\ clock >= wake[p]
    /\ wake' = [wake EXCEPT ![p] = 0]
    /\ pc' = [pc EXCEPT ![p] = "l37"]
    /\ UNCHANGED <<clock, _last_api_call, _params, starts, prev_status, call, current_time,
                   time_delta, stamp, sent, diag, response, result>>

\* line 37: the parameters are built and the GET request starts
Get(p) ==
    /\ pc[p] = "l37"
    /\ Len(starts) < MaxRequests
    /\ LET built == GetParams(_params, call[p].kwargs)
       IN /\ sent' = [sent EXCEPT ![p] = Append(@, built.params)]
          /\ diag' = [diag EXCEPT ![p] = @ \cup built.unknown]
    /\ starts' = Append(starts, clock)
    /\ pc' = [pc EXCEPT ![p] = "inflight"]
    /\ UNCHANGED <<clock, _last_api_call, _params, prev_status, call, current_time,
                   time_delta, wake, stamp, response, result>>

\* line 37: requests.get returns the response of the service
Respond(p) ==
    /\ pc[p] = "inflight"
    /\ \/ \E b \in Bodies(call[p].op) :
            response' = [response EXCEPT ![p] = [status_code |-> HTTP_OK, body |-> b]]
       \/ \E sc \in StatusCodes \ {HTTP_OK} :
            response' = [response EXCEPT ![p] = [status_code |-> sc, body |-> "error"]]
    /\ prev_status' = response'[p].status_code
    /\ pc' = [pc EXCEPT ![p] = "l39"]
    /\ UNCHANGED <<clock, _last_api_call, _params, starts, call, current_time,
                   time_delta, wake, stamp, sent, diag, result>>

\* line 39, right hand side: time.time() is evaluated
ReadStamp(p) ==
    /\ pc[p] = "l39"
    /\ stamp' = [stamp EXCEPT ![p] = clock]
    /\ pc' = [pc EXCEPT ![p] = "l39w"]
    /\ UNCHANGED <<clock, _last_api_call, _params, starts, prev_status, call, current_time,
                   time_delta, wake, sent, diag, response, result>>

\* line 39, the assignment to self._last_api_call
WriteLast(p) ==
    /\ pc[p] = "l39w"
    /\ _last_api_call' = stamp[p]
    /\ stamp' = [stamp EXCEPT ![p] = 0]
    /\ pc' = [pc EXCEPT ![p] = "l40"]
    /\ UNCHANGED <<clock, _params, starts, prev_status, call, current_time, time_delta, wake,
                   sent, diag, response, result>>

\* lines 40-43 and the rest of the operation that called _call_api
Finish(p) ==
    /\ pc[p] = "l40"
    /\ result' = [result EXCEPT ![p] = Reshape(call[p].op, CallApiReturn(response[p]))]
    /\ pc' = [pc EXCEPT ![p] = "done"]
    /\ UNCHANGED <<clock, _last_api_call, _params, starts, prev_status, call, Locals>>

\* the operation has returned or raised; its frame is gone
Return(p) ==
    /\ pc[p] = "done"
    /\ pc' = [pc EXCEPT ![p] = "idle"]
    /\ call' = [call EXCEPT ![p] = NoCall]
    /\ current_time' = [current_time EXCEPT ![p] = 0]
    /\ time_delta' = [time_delta EXCEPT ![p] = 0]
    /\ wake' = [wake EXCEPT ![p] = 0]
    /\ stamp' = [stamp EXCEPT ![p] = 0]
    /\ sent' = [sent EXCEPT ![p] = <<>>]
    /\ diag' = [diag EXCEPT ![p] = {}]
    /\ response' = [response EXCEPT ![p] = [status_code |-> 0, body |-> <<>>]]
    /\ result' = [result EXCEPT ![p] = Pending]
    /\ UNCHANGED <<clock, _last_api_call, _params, starts, prev_status>>

\* time passes
Tick ==
    /\ clock < MaxTime
    /\ clock' = clock + 1
    /\ UNCHANGED <<_last_api_call, _params, starts, prev_status, pc, call, Locals, result>>

CallApiStep(p) ==
    \/ ReadClock(p)
    \/ ReadLast(p)
    \/ SleepCall(p)
    \/ SleepReturn(p)
    \/ Get(p)
    \/ Respond(p)
    \/ ReadStamp(p)
    \/ WriteLast(p)
    \/ Finish(p)
    \/ Return(p)

Operation(p) ==
    \/ get_branches(p)
    \/ get_countries(p)
    \/ get_markets(p)
    \/ get_sectors(p)
    \/ get_translation_metadata(p)
    \/ get_instruments(p)
    \/ get_instruments_updated(p)
    \/ get_instrument_descriptions(p)
    \/ get_kpi_history(p)
    \/ get_kpi_summary(p)
    \/ get_kpi_data_instrument(p)
    \/ get_kpi_data_all_instruments(p)
    \/ get_updated_kpis(p)
    \/ get_kpi_metadata(p)
    \/ get_instrument_report(p)
    \/ get_instrument_reports(p)
    \/ get_instrument_report_list(p)
    \/ get_reports_metadata(p)
    \/ get_report_calendar(p)
    \/ get_instrument_stock_prices(p)
    \/ get_instrument_stock_prices_list(p)
    \/ get_instruments_stock_prices_last(p)
    \/ get_stock_prices_date(p)
    \/ get_stock_splits(p)

\* one caller issuing endpoint operations one after another
Next == Tick \/ Operation(1) \/ CallApiStep(1)

Spec == Init /\ [][Next]_vars

\* one caller using the parameter builder through _call_api with any keywords
NextBuilder == Tick \/ call_api(1) \/ get_instrument_stock_prices(1) \/ CallApiStep(1)

SpecBuilder == Init /\ [][NextBuilder]_vars

\* two threads calling operations of the same client concurrently
NextConc ==
    \/ Tick
    \/ \E p \in Threads : get_branches(p) \/ get_updated_kpis(p) \/ CallApiStep(p)

SpecConc == Init /\ [][NextConc]_vars

----------------------------------------------------------------------------
(* Properties *)

Endpoints ==
    {"get_branches", "get_countries", "get_markets", "get_sectors",
     "get_translation_metadata", "get_instruments", "get_instruments_updated",
     "get_instrument_descriptions", "get_kpi_history", "get_kpi_summary",
     "get_kpi_data_instrument", "get_kpi_data_all_instruments", "get_updated_kpis",
     "get_kpi_metadata", "get_instrument_report", "get_instrument_reports",
     "get_instrument_report_list", "get_reports_metadata", "get_report_calendar",
     "get_instrument_stock_prices", "get_instrument_stock_prices_list",
     "get_instruments_stock_prices_last", "get_stock_prices_date", "get_stock_splits"}

\* C1: with a single caller issuing operations one after another, the
\* starts of two consecutive GET requests are at least 1/calls_per_second
\* apart, so the j-th request starts at least (j - i)/calls_per_second after
\* the i-th, whatever the status of the responses in between.
C1_SequentialSpacing ==
    \A i, j \in DOMAIN starts :
        i < j => starts[j] - starts[i] >= (j - i) * Interval

\* C1 witness: a request has started exactly 1/calls_per_second after the
\* previous one, whose response had a status other than 200
C1_Witness ==
    /\ Len(starts) >= 2
    /\ pc[1] = "inflight"
    /\ prev_status \notin {0, HTTP_OK}
    /\ starts[Len(starts)] - starts[Len(starts) - 1] = Interval

\* C2: with two threads calling operations concurrently, under every
\* interleaving of the steps of _call_api the starts of any two requests
\* are at least 1/calls_per_second apart.
C2_ConcurrentSpacing ==
    \A i \in DOMAIN starts :
        i > 1 => starts[i] >= starts[i - 1] + Interval

BatchOps == {"get_instrument_descriptions", "get_report_calendar"}

\* C3: a batch operation (descriptions, calendar) called with more than 50
\* ids issues no request and ends in the validation failure (None); called
\* with at most 50 ids it issues exactly one request.
C3_BatchLimit ==
    \A p \in Threads :
        call[p].op \in BatchOps =>
            /\ Len(call[p].ins_ids) > MaxBatch =>
                  /\ sent[p] = <<>>
                  /\ pc[p] = "done" => result[p].kind = "none"
            /\ (Len(call[p].ins_ids) <= MaxBatch /\ pc[p] = "done") =>
                  Len(sent[p]) = 1

\* C4: when the response has a non-success status, the endpoint operation
\* issues no second request and hands back an explicit failure result; it
\* does not end in an error raised while unwrapping the payload.
C4_FailureSurfaced ==
    \A p \in Threads :
        (/\ pc[p] = "done"
         /\ call[p].op \in Endpoints
         /\ response[p].status_code \notin {0, HTTP_OK}) =>
            /\ Len(sent[p]) = 1
            /\ result[p].kind # "raise"

\* C5: after any sequence of operations the base parameter set of the
\* session is the one fixed at construction.
C5_BaseParamsFixed == _params = InitParams

MaxCountOps ==
    {"get_kpi_history", "get_kpi_summary", "get_instrument_report",
     "get_instrument_stock_prices"}

\* C6: the request of an operation that accepts max_count carries maxCount
\* equal to the max_count given, and maxCount = 20 when it is omitted.
C6_MaxCountCarried ==
    \A p \in Threads :
        (call[p].op \in MaxCountOps /\ sent[p] # <<>>) =>
            sent[p][1]["maxCount"] =
                IF call[p].max_count.none THEN DefaultMaxCount
                ELSE call[p].max_count.val

\* the overrides of the call of thread p that are not None
Given(p) == {k \in DOMAIN call[p].kwargs : ~call[p].kwargs[k].none}

\* an override of thread p appears in the parameters sent, under key as,
\* with its value unchanged, and is not reported
Verbatim(p, k, as) ==
    /\ as \in DOMAIN sent[p][1]
    /\ sent[p][1][as] = call[p].kwargs[k].val
    /\ k \notin diag[p]

\* C7 as stated: an override to_date or date with a value other than None
\* appears in the call parameters with its value unchanged and is not
\* reported as unrecognized.
C7_ToDateVerbatim ==
    \A p \in Threads :
        sent[p] # <<>> =>
            \A k \in Given(p) \cap {"to_date", "date"} : Verbatim(p, k, k)

\* C7 amended: the recognized keys are to and date: an override to or date
\* with a value other than None appears in the call parameters under the
\* same key with its value unchanged and is not reported; an override
\* to_date is reported as unknown and is not in the call parameters.
C7_ToVerbatim ==
    \A p \in Threads :
        sent[p] # <<>> =>
            /\ \A k \in Given(p) \cap {"to", "date"} : Verbatim(p, k, k)
            /\ "to_date" \in Given(p) =>
                  "to_date" \in diag[p] /\ "to_date" \notin DOMAIN sent[p][1]

\* C7 witness: a request built from overrides to and date, both given
C7_Witness ==
    /\ sent[1] # <<>>
    /\ Given(1) = {"to", "date"}

\* the recognized set as the specification lists it, and as line 50-54 test it
RecognizedStated == {"from_date", "to_date", "date", "instList"}
RecognizedKeys == {"from_date", "to", "date", "instList"}

\* the key an override is sent under
ServerKey(k) == IF k = "from_date" THEN "from" ELSE k

\* C8 as stated: every override outside {from_date, to_date, date,
\* instList} with a value is reported and absent from the call parameters,
\* the parameters still hold the base parameters and every recognized
\* override, the request proceeds, and a None override is not reported.
C8_UnknownDroppedStated ==
    \A p \in Threads :
        sent[p] # <<>> =>
            /\ \A k \in Given(p) \ RecognizedStated :
                  k \in diag[p] /\ k \notin DOMAIN sent[p][1]
            /\ \A b \in DOMAIN _params :
                  b \in DOMAIN sent[p][1] /\ sent[p][1][b] = _params[b]
            /\ \A k \in Given(p) \cap RecognizedStated :
                  ServerKey(k) \in DOMAIN sent[p][1]
            /\ diag[p] \subseteq Given(p)

\* C8 amended: with the recognized set {from_date, to, date, instList},
\* every override outside it with a value is reported and adds nothing to
\* the call parameters: their keys are the base keys and the server keys
\* of the recognized overrides given, the base values are unchanged, every
\* recognized override is present, exactly the unrecognized overrides with
\* a value are reported (none for None), and the request is issued.
C8_UnknownDropped ==
    \A p \in Threads :
        /\ sent[p] # <<>> =>
            /\ diag[p] = Given(p) \ RecognizedKeys
            /\ DOMAIN sent[p][1] =
                  (DOMAIN _params) \cup {ServerKey(k) : k \in Given(p) \cap RecognizedKeys}
            /\ \A b \in DOMAIN _params : sent[p][1][b] = _params[b]
            /\ \A k \in Given(p) \cap (RecognizedKeys \ {"instList"}) :
                  sent[p][1][ServerKey(k)] = call[p].kwargs[k].val
            /\ "instList" \in Given(p) =>
                  sent[p][1]["instList"] = Join(call[p].kwargs["instList"].val)
        /\ (pc[p] = "done" /\ call[p].op = "_call_api") => Len(sent[p]) = 1

\* C8 witness: a call with an unknown override and a recognized one, both
\* given, has issued its request and returned
C8_Witness ==
    /\ pc[1] = "done"
    /\ call[1].op = "_call_api"
    /\ Given(1) = {"foo", "instList"}
    /\ Len(sent[1]) = 1
    /\ diag[1] = {"foo"}

\* C9: an override from_date with a value other than None is sent under
\* the server key from, and the key from_date is never in the parameters
\* sent.
C9_FromDateRenamed ==
    \A p \in Threads :
        sent[p] # <<>> =>
            /\ "from_date" \notin DOMAIN sent[p][1]
            /\ "from_date" \in Given(p) => Verbatim(p, "from_date", "from")

\* C9 witness: a request built from overrides from_date and from, both given
C9_Witness ==
    /\ sent[1] # <<>>
    /\ Given(1) = {"from_date", "from"}

\* the index columns an operation passes to _set_index, and its direction
DeclaredIndex(op) ==
    CASE op \in {"get_branches", "get_countries", "get_markets", "get_sectors"} -> <<"id">>
      [] op = "get_translation_metadata" -> <<"translationKey">>
      [] op \in {"get_instruments", "get_instruments_updated", "get_kpi_data_instrument",
                 "get_kpi_data_all_instruments", "get_stock_prices_date",
                 "get_stock_splits"} -> <<"insId">>
      [] op = "get_instrument_descriptions" -> <<"insId", "lang">>
      [] op \in {"get_kpi_history", "get_kpi_summary", "get_instrument_report",
                 "get_instrument_reports"} -> <<"year", "period">>
      [] op = "get_kpi_metadata" -> <<"kpiId">>
      [] op = "get_reports_metadata" -> <<"reportProperty">>
      [] op \in {"get_instrument_stock_prices", "get_instruments_stock_prices_last"} ->
            <<"date">>
      [] OTHER -> <<>>

DeclaredAscending(op) ==
    op \notin {"get_kpi_history", "get_kpi_summary", "get_instrument_report",
               "get_instrument_reports", "get_instrument_stock_prices",
               "get_instruments_stock_prices_last"}

Sorted(rows, index, ascending) ==
    \A i \in 1..(Len(rows) - 1) : ~Before(index, ascending, rows[i + 1], rows[i])

ResultTables(r) == IF r.kind = "table" THEN <<r.df>> ELSE r.dfs

\* C10: an operation that declares index columns does not fail on a
\* payload; when a declared index column is absent the table comes back
\* un-indexed, and when all are present it is indexed by them and sorted
\* by that index in the direction of the endpoint.
C10_IndexPolicy ==
    \A p \in Threads :
        (/\ pc[p] = "done"
         /\ response[p].status_code = HTTP_OK
         /\ DeclaredIndex(call[p].op) # <<>>) =>
            /\ result[p].kind \in {"table", "tables"}
            /\ LET dfs == ResultTables(result[p])
                   index == DeclaredIndex(call[p].op)
               IN \A i \in DOMAIN dfs :
                    IF Range(index) \subseteq dfs[i].columns \cup Range(dfs[i].index)
                    THEN /\ dfs[i].index = index
                         /\ Sorted(dfs[i].rows, index, DeclaredAscending(call[p].op))
                    ELSE dfs[i].index = <<>>

\* the values of all KPIs of the "kpis" list of a KPI summary payload
RECURSIVE KpiValues(_)
KpiValues(kpis) ==
    IF kpis = <<>> THEN <<>> ELSE Head(kpis).values \o KpiValues(Tail(kpis))

\* a KPI summary payload with at least one value, every value with its
\* year, period and value fields
KpiPayloadComplete(body) ==
    /\ KpiValues(body.kpis) # <<>>
    /\ \A v \in Range(KpiValues(body.kpis)) : {"y", "p", "v"} \subseteq DOMAIN v

\* C11: for a KPI summary payload, get_kpi_summary returns a table with one
\* column per distinct KPI id and one row per distinct (year, period),
\* indexed by (year, period) and ordered descending by that index.
C11_KpiPivotDescending ==
    \A p \in Threads :
        (/\ pc[p] = "done"
         /\ call[p].op = "get_kpi_summary"
         /\ response[p].status_code = HTTP_OK
         /\ KpiPayloadComplete(response[p].body)) =>
            /\ result[p].kind = "table"
            /\ LET df == result[p].df
                   kpis == response[p].body.kpis
                   keys == {<<v.y, v.p>> : v \in Range(KpiValues(kpis))}
               IN /\ df.columns = {ToString(kpis[i].KpiId) : i \in DOMAIN kpis}
                  /\ df.index = <<"year", "period">>
                  /\ {<<df.rows[i]["year"], df.rows[i]["period"]>> :
                        i \in DOMAIN df.rows} = keys
                  /\ Len(df.rows) = Cardinality(keys)
                  /\ Sorted(df.rows, df.index, FALSE)

====
